---- MODULE Spec2Model ----
(***************************************************************************)
(* Model of koota-tree-queries (src/src/tree-query.ts): createTreeQuery    *)
(* compiles a nested specification of traits and filter nodes into a flat  *)
(* list of edges; the returned executor narrows per-node entity lists edge *)
(* by edge against a live world.                                           *)
(***************************************************************************)
EXTENDS Integers, Sequences, FiniteSets, TLC

\* ------------------------------------------------------------------------
\* Bounds of the model
MaxEnt == 3        \* entities a world ever spawns
MaxMut == 1        \* world mutations between two executions
MaxDepth == 2      \* executions of the compiled query in flight at once
MaxLen == 2        \* length of a list handed to a filter function directly
MaxRel == 2        \* relation pairs a world built by mutations holds

Entities == 1..MaxEnt
Traits == {"A"}

\* ------------------------------------------------------------------------
\* The world (koota, external): entities are spawned with fresh handles and
\* hold traits and relation pairs.  isParentOf holds the pairs <<e, t>> with
\* e.has(IsParentOf(t)); target[e] is e.targetFor(IsChildOf), 0 for
\* undefined.  The two relations are independent of each other, as in the
\* tests.
Relations == {"IsParentOf", "IsChildOf"}

EmptyWorld ==
  [spawned |-> 0, alive |-> {}, traits |-> [e \in Entities |-> {}],
   isParentOf |-> {}, target |-> [e \in Entities |-> 0]]

\* entity.add(relation(t))
addRelation(w, e, rel, t) ==
  IF rel = "IsParentOf" THEN [w EXCEPT !.isParentOf = @ \cup {<<e, t>>}]
  ELSE [w EXCEPT !.target[e] = IF @ = 0 THEN t ELSE @]

\* world.spawn(...ts) and world.spawn(...ts, rel(t)); rel = "" for no relation.
spawn(w, ts, rel, t) ==
  LET e == w.spawned + 1
      s == [w EXCEPT !.spawned = e, !.alive = @ \cup {e}, !.traits[e] = ts]
  IN  IF rel = "" THEN s ELSE addRelation(s, e, rel, t)

\* entity.destroy(): the pairs that name the entity go with it.
destroy(w, e) ==
  [w EXCEPT !.alive = @ \ {e},
            !.traits[e] = {},
            !.isParentOf = {pr \in @ : pr[1] # e /\ pr[2] # e},
            !.target = [x \in Entities |-> IF x = e \/ @[x] = e THEN 0 ELSE @[x]]]

addTrait(w, e, t) == [w EXCEPT !.traits[e] = @ \cup {t}]

removeTrait(w, e, t) == [w EXCEPT !.traits[e] = @ \ {t}]

\* entity.remove(relation(t))
removeRelation(w, e, rel, t) ==
  IF rel = "IsParentOf" THEN [w EXCEPT !.isParentOf = @ \ {<<e, t>>}]
  ELSE [w EXCEPT !.target[e] = IF @ = t THEN 0 ELSE @]

\* The relation pairs a world holds.
relationCount(w) ==
  Cardinality(w.isParentOf) + Cardinality({e \in Entities : w.target[e] # 0})

\* ------------------------------------------------------------------------
\* Sequence helpers
RECURSIVE SetToSortedSeq(_)
SetToSortedSeq(S) ==
  IF S = {} THEN <<>>
  ELSE LET m == CHOOSE x \in S : \A y \in S : x <= y
       IN  <<m>> \o SetToSortedSeq(S \ {m})

Range(s) == {s[i] : i \in 1..Len(s)}

Reverse(s) == [i \in 1..Len(s) |-> s[Len(s) + 1 - i]]

\* ------------------------------------------------------------------------
\* world.query(hash): the entities holding every required trait, in the
\* store's order (ascending handle).  A raw list is no trait an entity holds.
worldQuery(w, components) ==
  SetToSortedSeq({e \in w.alive : \A i \in 1..Len(components) : components[i] \in w.traits[e]})

\* The conditions of the tests and of main.ts, by name.
condition(name, e1, e2, w) ==
  CASE name = "HasChild" -> <<e1, e2>> \in w.isParentOf
    [] name = "HasSiblings" ->
         /\ w.target[e1] = w.target[e2]
         /\ w.target[e1] # 0
         /\ e1 # e2
    [] name = "NotItself" -> e1 # e2
    [] OTHER -> FALSE

\* ------------------------------------------------------------------------
\* queryFilter (createTreeQueryFilter): the children one parent records, in
\* scan order; with skipCollectingChildren the scan breaks at the first match.
RECURSIVE scanChildren(_, _, _, _, _, _)

\* (scanChildren with the break of line 437 moved out of  if (match): with
\* skipCollectingChildren the scan ends after the first child, match or not.)
scanChildrenBreakAlways(name, parentEid, children, w, skipCollectingChildren, j) ==
  IF j > Len(children) THEN <<>>
  ELSE (IF condition(name, parentEid, children[j], w) THEN <<children[j]>> ELSE <<>>)
       \o (IF skipCollectingChildren THEN <<>>
           ELSE scanChildren(name, parentEid, children, w, skipCollectingChildren, j + 1))

scanChildren(name, parentEid, children, w, skipCollectingChildren, j) ==
  IF j > Len(children) THEN <<>>
  ELSE IF condition(name, parentEid, children[j], w)
       THEN IF skipCollectingChildren THEN <<children[j]>>
            ELSE <<children[j]>> \o
                 scanChildren(name, parentEid, children, w, skipCollectingChildren, j + 1)
       ELSE scanChildren(name, parentEid, children, w, skipCollectingChildren, j + 1)

RECURSIVE filterFrom(_, _, _, _, _, _)

\* (filterFrom with parents2.push moved into the inner loop, beside
\* children2.push: a parent is recorded once per recorded child.)
filterFromPushPerMatch(name, parents, children, w, skipCollectingChildren, i) ==
  IF i > Len(parents) THEN [parents |-> <<>>, children |-> <<>>]
  ELSE LET found == scanChildren(name, parents[i], children, w, skipCollectingChildren, 1)
           rest == filterFrom(name, parents, children, w, skipCollectingChildren, i + 1)
       IN  [parents |-> [k \in 1..Len(found) |-> parents[i]] \o rest.parents,
            children |-> found \o rest.children]

filterFrom(name, parents, children, w, skipCollectingChildren, i) ==
  IF i > Len(parents) THEN [parents |-> <<>>, children |-> <<>>]
  ELSE LET found == scanChildren(name, parents[i], children, w, skipCollectingChildren, 1)
           rest == filterFrom(name, parents, children, w, skipCollectingChildren, i + 1)
       IN  [parents |-> (IF Len(found) > 0 THEN <<parents[i]>> ELSE <<>>) \o rest.parents,
            children |-> found \o rest.children]

queryFilter(name, parents, children, w, skipCollectingChildren) ==
  filterFrom(name, parents, children, w, skipCollectingChildren, 1)

\* ------------------------------------------------------------------------
\* Specifications as written by the caller: a list of traits, raw lists and
\* filter calls  Filter(args...).
T(name) == [k |-> "trait", name |-> name, args |-> <<>>]
RawList == [k |-> "list", name |-> "[]", args |-> <<>>]
F(name, args) == [k |-> "filter", name |-> name, args |-> args]

\* Values the caller's expressions evaluate to: a trait, an array, or the
\* filter node a relationship constructor returns (or its throw).
TraitValue(name) ==
  [isFilter |-> FALSE, isArray |-> FALSE, thrown |-> FALSE, trait |-> name,
   components |-> <<>>, queryFilter |-> "", childQueries |-> <<>>]
ArrayValue ==
  [isFilter |-> FALSE, isArray |-> TRUE, thrown |-> FALSE, trait |-> "[]",
   components |-> <<>>, queryFilter |-> "", childQueries |-> <<>>]
Thrown ==
  [isFilter |-> FALSE, isArray |-> FALSE, thrown |-> TRUE, trait |-> "",
   components |-> <<>>, queryFilter |-> "", childQueries |-> <<>>]

\* The function createTreeQueryFilter(condition) returns, applied to traits.
createTreeQueryFilter(name, traits) ==
  IF \E i \in 1..Len(traits) : traits[i].isArray THEN Thrown
  ELSE LET isF(v) == v.isFilter
           notF(v) == ~v.isFilter
           comps == SelectSeq(traits, notF)
       IN  [isFilter |-> TRUE, isArray |-> FALSE, thrown |-> FALSE, trait |-> "",
            components |-> [i \in 1..Len(comps) |-> comps[i].trait],
            queryFilter |-> name,
            childQueries |-> SelectSeq(traits, isF)]

\* Evaluation of one argument expression, innermost calls first; a throw of
\* an inner constructor call propagates.
RECURSIVE Evaluate(_)
Evaluate(x) ==
  IF x.k = "trait" THEN TraitValue(x.name)
  ELSE IF x.k = "list" THEN ArrayValue
  ELSE LET vals == [i \in 1..Len(x.args) |-> Evaluate(x.args[i])]
       IN  IF \E i \in 1..Len(vals) : vals[i].thrown THEN Thrown
           ELSE createTreeQueryFilter(x.name, vals)

\* ------------------------------------------------------------------------
\* genId: prevIds is created empty and nothing is ever added to it, so the
\* retry branch is taken only for a value in the (empty) set.
RECURSIVE genSafeId(_, _, _)
genSafeId(prevIds, draws, n) ==
  LET newId == draws[n + 1]
  IN  IF newId \in prevIds THEN genSafeId(prevIds, draws, n + 1)
      ELSE [id |-> newId, n |-> n + 1]

genId(draws, n) == genSafeId({}, draws, n)

\* ------------------------------------------------------------------------
\* buildQueryRecursive.  The build state: objs are the WipQuery objects (a
\* handle is an index, so that an id assigned later shows in every holder),
\* filterWithTuple, finalQueries and childQueryObjects are the arrays of the
\* closure, n counts the Math.random() draws.
EmptyBuild ==
  [objs |-> <<>>, filterWithTuple |-> <<>>, finalQueries |-> <<>>,
   childQueryObjects |-> <<>>, n |-> 0]

\* One pass of the for loop over query[idx..]; h is nextParentQuery.
RECURSIVE loopNodes(_, _, _, _, _, _)
loopNodes(st, draws, query, idx, h, nextNodeFind) ==
  IF idx > Len(query) THEN [st |-> st, nextNodeFind |-> nextNodeFind]
  ELSE LET node == query[idx]
           g == genId(draws, st.n)
           c == Len(st.objs) + 1
       IN  IF node.isFilter
           THEN loopNodes(
                  [st EXCEPT
                     !.objs = Append(@, [id |-> g.id, components |-> node.components]),
                     !.n = g.n,
                     !.finalQueries = Append(@, c),
                     !.childQueryObjects =
                        IF Len(node.childQueries) > 0
                        THEN Append(@, [children |-> node.childQueries, queryObject |-> c])
                        ELSE @,
                     !.filterWithTuple =
                        Append(@, [filter |-> node.queryFilter, parent |-> h, child |-> c])],
                  draws, query, idx + 1, h,
                  nextNodeFind \/ Len(node.components) > 0)
           ELSE loopNodes(
                  [st EXCEPT !.objs[h].components = Append(@, node.trait)],
                  draws, query, idx + 1, h, nextNodeFind)

RECURSIVE buildQueryRecursive(_, _, _, _, _)
RECURSIVE loopChildQueryObjects(_, _, _, _)

\* The for-of loop over childQueryObjects: the array is the closure's, and
\* every recursive call empties it first, so the loop reads what is at
\* index k after the call returned.
loopChildQueryObjects(st, draws, k, nextNodeFind) ==
  IF k > Len(st.childQueryObjects) THEN st
  ELSE LET e == st.childQueryObjects[k]
       IN  loopChildQueryObjects(
             buildQueryRecursive(st, draws, e.children, nextNodeFind, e.queryObject),
             draws, k + 1, nextNodeFind)

\* (buildQueryRecursive with line 200 an independent  if (!parentQueryPassed):
\* a top-level node without components is pushed by both branches.)
buildQueryRecursivePushTwice(st0, draws, query, foundNodeComponents, parentQueryObject) ==
  LET s1 == [st0 EXCEPT !.childQueryObjects = <<>>]
      parentQueryPassed == parentQueryObject # 0
      g == genId(draws, s1.n)
      s2 == IF parentQueryPassed THEN s1
            ELSE [s1 EXCEPT !.objs = Append(@, [id |-> g.id, components |-> <<>>]),
                            !.n = g.n]
      h == IF parentQueryPassed THEN parentQueryObject ELSE Len(s2.objs)
      r == loopNodes(s2, draws, query, 1, h, FALSE)
      s3 == r.st
      g2 == genId(draws, s3.n)
      s4 == IF Len(s3.objs[h].components) = 0 /\ Len(query) > 0 /\ ~foundNodeComponents
            THEN [s3 EXCEPT !.objs[h].id = g2.id, !.n = g2.n,
                            !.finalQueries = Append(@, h)]
            ELSE s3
      s5 == IF ~parentQueryPassed
            THEN [s4 EXCEPT !.finalQueries = Append(@, h)]
            ELSE s4
  IN  loopChildQueryObjects(s5, draws, 1, r.nextNodeFind)

\* parentQueryObject is a handle, 0 for null.
buildQueryRecursive(st0, draws, query, foundNodeComponents, parentQueryObject) ==
  LET s1 == [st0 EXCEPT !.childQueryObjects = <<>>]
      parentQueryPassed == parentQueryObject # 0
      g == genId(draws, s1.n)
      s2 == IF parentQueryPassed THEN s1
            ELSE [s1 EXCEPT !.objs = Append(@, [id |-> g.id, components |-> <<>>]),
                            !.n = g.n]
      h == IF parentQueryPassed THEN parentQueryObject ELSE Len(s2.objs)
      r == loopNodes(s2, draws, query, 1, h, FALSE)
      s3 == r.st
      g2 == genId(draws, s3.n)
      s4 == IF Len(s3.objs[h].components) = 0 /\ Len(query) > 0 /\ ~foundNodeComponents
            THEN [s3 EXCEPT !.objs[h].id = g2.id, !.n = g2.n,
                            !.finalQueries = Append(@, h)]
            ELSE IF Len(s3.objs[h].components) > 0 /\ ~parentQueryPassed
                 THEN [s3 EXCEPT !.finalQueries = Append(@, h)]
                 ELSE s3
  IN  loopChildQueryObjects(s4, draws, 1, r.nextNodeFind)

\* ------------------------------------------------------------------------
\* queryById: Map.set in the order of finalQueries, a later entry of the same
\* id replacing an earlier one.
RECURSIVE queryByIdFrom(_, _, _, _)
queryByIdFrom(objs, finalQueries, k, map) ==
  IF k > Len(finalQueries) THEN map
  ELSE LET o == objs[finalQueries[k]]
       IN  queryByIdFrom(objs, finalQueries, k + 1,
             [i \in DOMAIN map \cup {o.id} |-> IF i = o.id THEN o.components ELSE map[i]])

\* The loop over filterWithTuple that fills nodeStore: a node per id, and an
\* edge pushed on the parent's children when the child node is new.
RECURSIVE buildNodeStore(_, _, _, _, _)
buildNodeStore(objs, filterWithTuple, queryById, k, nodeStore) ==
  IF k > Len(filterWithTuple) THEN nodeStore
  ELSE LET t == filterWithTuple[k]
           pid == objs[t.parent].id
           cid == objs[t.child].id
           s1 == IF pid \in DOMAIN nodeStore THEN nodeStore
                 ELSE nodeStore @@
                      (pid :> [id |-> pid, query |-> queryById[pid], children |-> <<>>])
           edge == [filter |-> t.filter, parentNode |-> pid, childNode |-> cid]
           s2 == IF cid \in DOMAIN s1 THEN s1
                 ELSE [s1 EXCEPT ![pid].children = Append(@, edge)] @@
                      (cid :> [id |-> cid, query |-> queryById[cid], children |-> <<>>])
       IN  buildNodeStore(objs, filterWithTuple, queryById, k + 1, s2)

RECURSIVE flatten(_, _, _)

\* (flatten with line 296 an unshift: each node's edges are put in front of
\* the edges recorded so far.)
flattenUnshift(nodeStore, nodeStack, edgesFlattened) ==
  IF Len(nodeStack) = 0 THEN edgesFlattened
  ELSE LET node == nodeStore[nodeStack[Len(nodeStack)]]
           popped == SubSeq(nodeStack, 1, Len(nodeStack) - 1)
       IN  flatten(nodeStore,
                   popped \o [i \in 1..Len(node.children) |-> node.children[i].childNode],
                   Reverse(node.children) \o edgesFlattened)

\* The nodeStack loop: pop a node, push its children, record their edges.
flatten(nodeStore, nodeStack, edgesFlattened) ==
  IF Len(nodeStack) = 0 THEN edgesFlattened
  ELSE LET node == nodeStore[nodeStack[Len(nodeStack)]]
           popped == SubSeq(nodeStack, 1, Len(nodeStack) - 1)
       IN  flatten(nodeStore,
                   popped \o [i \in 1..Len(node.children) |-> node.children[i].childNode],
                   edgesFlattened \o node.children)

\* (flattenEdges without line 311: the edges stay in depth-first order.)
flattenEdgesNotReversed(nodeStore, rootId) == flatten(nodeStore, <<rootId>>, <<>>)

\* Lines 291-311: the depth-first edge list, reversed.
flattenEdges(nodeStore, rootId) == Reverse(flatten(nodeStore, <<rootId>>, <<>>))

NoPlan(status) ==
  [status |-> status, rootNode |-> 0, edgesFlattened |-> <<>>, nodes |-> <<>>,
   finalQueries |-> <<>>]

\* Lines 218-221 hand every components array to koota's cacheQuery, which
\* is not part of this repository: given an array among the traits it
\* either hashes it or throws a TypeError.
cacheQueryThrows(objs, finalQueries) ==
  \E k \in 1..Len(finalQueries) :
    \E i \in 1..Len(objs[finalQueries[k]].components) :
      objs[finalQueries[k]].components[i] = ArrayValue.trait

\* (createTreeQuery without the check of lines 223-225: a specification
\* without a filter compiles to a query over no edge.)
createTreeQueryUnchecked(queryTree, draws, strictStore) ==
  IF Len(queryTree) = 0 THEN NoPlan("TreeQueryEmpty")
  ELSE LET b == buildQueryRecursive(EmptyBuild, draws, queryTree, FALSE, 0)
           queryById == queryByIdFrom(b.objs, b.finalQueries, 1, <<>>)
       IN  IF strictStore /\ cacheQueryThrows(b.objs, b.finalQueries) THEN NoPlan("TypeError")
           ELSE IF Len(b.filterWithTuple) = 0 THEN NoPlan("ok")
           ELSE LET rootId == b.objs[b.filterWithTuple[1].parent].id
                    nodeStore == buildNodeStore(b.objs, b.filterWithTuple, queryById, 1, <<>>)
                IN  IF rootId \notin DOMAIN nodeStore THEN NoPlan("Unexpected")
                    ELSE [status |-> "ok",
                          rootNode |-> rootId,
                          edgesFlattened |-> flattenEdges(nodeStore, rootId),
                          nodes |-> nodeStore,
                          finalQueries |->
                            [i \in 1..Len(b.finalQueries) |-> b.objs[b.finalQueries[i]].id]]

\* createTreeQuery(...queryTree) on the evaluated arguments: the compiled
\* closure (root node, flat edge list, nodes by id) or the throw.
\* strictStore: koota's cacheQuery throws on a parameter that is no trait.
createTreeQuery(queryTree, draws, strictStore) ==
  IF Len(queryTree) = 0 THEN NoPlan("TreeQueryEmpty")
  ELSE LET b == buildQueryRecursive(EmptyBuild, draws, queryTree, FALSE, 0)
           queryById == queryByIdFrom(b.objs, b.finalQueries, 1, <<>>)
       IN  IF strictStore /\ cacheQueryThrows(b.objs, b.finalQueries) THEN NoPlan("TypeError")
           ELSE IF Len(b.filterWithTuple) = 0 THEN NoPlan("NoFilter")
           ELSE LET rootId == b.objs[b.filterWithTuple[1].parent].id
                    nodeStore == buildNodeStore(b.objs, b.filterWithTuple, queryById, 1, <<>>)
                IN  IF rootId \notin DOMAIN nodeStore THEN NoPlan("Unexpected")
                    ELSE [status |-> "ok",
                          rootNode |-> rootId,
                          edgesFlattened |-> flattenEdges(nodeStore, rootId),
                          nodes |-> nodeStore,
                          finalQueries |->
                            [i \in 1..Len(b.finalQueries) |-> b.objs[b.finalQueries[i]].id]]

\* The caller's statement  createTreeQuery(tree...): the arguments are
\* evaluated first, and a throwing constructor call ends the statement.
compile(spec, drawn, strictStore) ==
  LET vals == [i \in 1..Len(spec) |-> Evaluate(spec[i])]
  IN  IF \E i \in 1..Len(vals) : vals[i].thrown THEN NoPlan("SyntaxError")
      ELSE createTreeQuery(vals, drawn, strictStore)

\* ------------------------------------------------------------------------
\* The executor (the function createTreeQuery returns), one edge in two
\* steps: the lookups of lines 329-336 up to the call of filter, and the rest
\* of the loop body from filter's result on.
\* (lookup without the tests of lines 329 and 333: both nodes of every edge
\* are looked up again.)
lookupAlways(plan, lists, computed, i, w) ==
  LET e == plan.edgesFlattened[i]
      l1 == [lists EXCEPT ![e.parentNode] = worldQuery(w, plan.nodes[e.parentNode].query)]
      l2 == [l1 EXCEPT ![e.childNode] = worldQuery(w, plan.nodes[e.childNode].query)]
  IN  [updateList |-> l2, queriesComputed |-> computed \cup {e.parentNode, e.childNode}]

lookup(plan, lists, computed, i, w) ==
  LET e == plan.edgesFlattened[i]
      l1 == IF e.parentNode \in computed THEN lists
            ELSE [lists EXCEPT ![e.parentNode] = worldQuery(w, plan.nodes[e.parentNode].query)]
      c1 == computed \cup {e.parentNode}
      l2 == IF e.childNode \in c1 THEN l1
            ELSE [l1 EXCEPT ![e.childNode] = worldQuery(w, plan.nodes[e.childNode].query)]
  IN  [updateList |-> l2, queriesComputed |-> c1 \cup {e.childNode}]

\* filter(parentNode.updateList, childNode.updateList, world, leaf child)
applyFilter(plan, i, parents, children, w) ==
  LET e == plan.edgesFlattened[i]
  IN  queryFilter(e.filter, parents, children, w,
                  Len(plan.nodes[e.childNode].children) = 0)

\* (narrow with the right-hand sides of lines 355 and 356 exchanged.)
narrowExchanged(plan, lists, i, r) ==
  LET e == plan.edgesFlattened[i]
      l1 == [lists EXCEPT ![e.parentNode] = r.children]
      l2 == [l1 EXCEPT ![e.childNode] = r.parents]
  IN  IF Len(r.parents) = 0 \/ Len(r.children) = 0
      THEN [returns |-> TRUE, value |-> <<>>, updateList |-> lists]
      ELSE IF i = Len(plan.edgesFlattened)
           THEN [returns |-> TRUE, value |-> l2[plan.rootNode], updateList |-> l2]
           ELSE [returns |-> FALSE, value |-> <<>>, updateList |-> l2]

\* (narrow with line 355 left out: the parent keeps its list.)
narrowChildOnly(plan, lists, i, r) ==
  LET e == plan.edgesFlattened[i]
      l2 == [lists EXCEPT ![e.childNode] = r.children]
  IN  IF Len(r.parents) = 0 \/ Len(r.children) = 0
      THEN [returns |-> TRUE, value |-> <<>>, updateList |-> lists]
      ELSE IF i = Len(plan.edgesFlattened)
           THEN [returns |-> TRUE, value |-> l2[plan.rootNode], updateList |-> l2]
           ELSE [returns |-> FALSE, value |-> <<>>, updateList |-> l2]

\* (narrow whose early return hands out the root's list, not the empty one.)
narrowReturnsRootList(plan, lists, i, r) ==
  LET e == plan.edgesFlattened[i]
      l1 == [lists EXCEPT ![e.parentNode] = r.parents]
      l2 == [l1 EXCEPT ![e.childNode] = r.children]
  IN  IF Len(r.parents) = 0 \/ Len(r.children) = 0
      THEN [returns |-> TRUE, value |-> lists[plan.rootNode], updateList |-> lists]
      ELSE IF i = Len(plan.edgesFlattened)
           THEN [returns |-> TRUE, value |-> l2[plan.rootNode], updateList |-> l2]
           ELSE [returns |-> FALSE, value |-> <<>>, updateList |-> l2]

\* Lines 349-359 for edge i with filter's result r: the early return, or the
\* two assignments and, after the last edge, the return of the root's list.
narrow(plan, lists, i, r) ==
  LET e == plan.edgesFlattened[i]
      l1 == [lists EXCEPT ![e.parentNode] = r.parents]
      l2 == [l1 EXCEPT ![e.childNode] = r.children]
  IN  IF Len(r.parents) = 0 \/ Len(r.children) = 0
      THEN [returns |-> TRUE, value |-> <<>>, updateList |-> lists]
      ELSE IF i = Len(plan.edgesFlattened)
           THEN [returns |-> TRUE, value |-> l2[plan.rootNode], updateList |-> l2]
           ELSE [returns |-> FALSE, value |-> <<>>, updateList |-> l2]

\* One whole call on closure state (lists, computed), not interrupted.
RECURSIVE runFrom(_, _, _, _, _)
runFrom(plan, lists, computed, i, w) ==
  IF i > Len(plan.edgesFlattened) THEN lists[plan.rootNode]
  ELSE LET lk == lookup(plan, lists, computed, i, w)
           e == plan.edgesFlattened[i]
           r == applyFilter(plan, i, lk.updateList[e.parentNode],
                            lk.updateList[e.childNode], w)
           nr == narrow(plan, lk.updateList, i, r)
       IN  IF nr.returns THEN nr.value
           ELSE runFrom(plan, nr.updateList, lk.queriesComputed, i + 1, w)

\* The closure state right after createTreeQuery returned.
freshLists(plan) == [id \in DOMAIN plan.nodes |-> <<>>]

\* What the query of a fresh compilation returns on world w.
runFresh(plan, w) == runFrom(plan, freshLists(plan), {}, 1, w)

\* ------------------------------------------------------------------------
\* State
VARIABLES
  tree,             \* the specification the caller passes to createTreeQuery
  draws,            \* the values Math.random() returns, in order
  plan,             \* the closure createTreeQuery returned (status "none" before)
  updateList,       \* node id -> EvalNode.updateList
  queriesComputed,  \* the closure's set of looked-up nodes
  world,            \* the live world
  stack,            \* the calls of the compiled query in flight, innermost last
  result,           \* what the last outermost call returned
  returned,         \* TRUE from that return until the next call or mutation
  previous,         \* what the outermost call before that one returned
  reentered,        \* a condition of the outermost call in flight called the query
  muts,             \* world mutations since the last call
  filterCall        \* the last direct call of a filter node's queryFilter

vars == <<tree, draws, plan, updateList, queriesComputed, world, stack, result,
          returned, previous, reentered, muts, filterCall>>

NoCall ==
  [called |-> FALSE, name |-> "", parents |-> <<>>, children |-> <<>>,
   skipCollectingChildren |-> FALSE, parents2 |-> <<>>, children2 |-> <<>>]

\* A second world of the process, created and never populated.
OtherWorld == EmptyWorld

worldOf(handle) == IF handle = "world" THEN world ELSE OtherWorld

DistinctDraws == [i \in 1..16 |-> i]

InitWith(trees) ==
  /\ tree \in trees
  /\ draws = DistinctDraws
  /\ plan = NoPlan("none")
  /\ updateList = <<>>
  /\ queriesComputed = {}
  /\ world = EmptyWorld
  /\ stack = <<>>
  /\ result = <<>>
  /\ returned = FALSE
  /\ previous = <<>>
  /\ reentered = FALSE
  /\ muts = 0
  /\ filterCall = NoCall

\* const q = createTreeQuery(...tree)
CreateTreeQuery ==
  /\ plan.status = "none"
  /\ \E strictStore \in BOOLEAN : plan' = compile(tree, draws, strictStore)
  /\ updateList' = freshLists(plan')
  /\ queriesComputed' = {}
  /\ UNCHANGED <<filterCall, tree, draws, world, stack, result, returned, previous, reentered, muts>>

\* World mutations happen between calls (predicates are side-effect free).
Mutate(w) ==
  /\ stack = <<>>
  /\ plan.status \in {"none", "ok"}
  /\ muts < MaxMut
  /\ world' = w
  /\ muts' = muts + 1
  /\ returned' = FALSE
  /\ UNCHANGED <<filterCall, tree, draws, plan, updateList, queriesComputed, stack, result, previous,
                 reentered>>

Spawn ==
  /\ world.spawned < MaxEnt
  /\ \/ \E ts \in SUBSET Traits : Mutate(spawn(world, ts, "", 0))
     \/ /\ relationCount(world) < MaxRel
        /\ \E ts \in SUBSET Traits, rel \in Relations, t \in world.alive :
             Mutate(spawn(world, ts, rel, t))

Destroy == \E e \in world.alive : Mutate(destroy(world, e))

AddTrait ==
  \E e \in world.alive, t \in Traits : t \notin world.traits[e] /\ Mutate(addTrait(world, e, t))

RemoveTrait ==
  \E e \in world.alive, t \in Traits : t \in world.traits[e] /\ Mutate(removeTrait(world, e, t))

\* entity.add(IsParentOf(t)), entity.add(IsChildOf(t)) on entities that exist.
AddRelation ==
  /\ relationCount(world) < MaxRel
  /\ \E e \in world.alive : \E t \in world.alive \ {e} :
       \/ <<e, t>> \notin world.isParentOf /\ Mutate(addRelation(world, e, "IsParentOf", t))
       \/ world.target[e] = 0 /\ Mutate(addRelation(world, e, "IsChildOf", t))

RemoveRelation ==
  \/ \E pr \in world.isParentOf : Mutate(removeRelation(world, pr[1], "IsParentOf", pr[2]))
  \/ \E e \in world.alive :
       world.target[e] # 0 /\ Mutate(removeRelation(world, e, "IsChildOf", world.target[e]))

\* (enter without line 322: queriesComputed keeps the nodes of the last call.)
enterWithoutClear(handle) ==
  /\ queriesComputed' = queriesComputed
  /\ stack' = Append(stack, [i |-> 1, phase |-> "lookup", w |-> handle,
                             parents |-> <<>>, children |-> <<>>])

\* Entry of the returned function: lines 322-323, then the loop starts.
enter(handle) ==
  /\ queriesComputed' = {}
  /\ stack' = Append(stack, [i |-> 1, phase |-> "lookup", w |-> handle,
                             parents |-> <<>>, children |-> <<>>])

\* (Call with the reversal of line 311 done at the start of every call.)
CallReversing ==
  /\ plan.status = "ok"
  /\ stack = <<>>
  /\ enter("world")
  /\ plan' = [plan EXCEPT !.edgesFlattened = Reverse(@)]
  /\ returned' = FALSE
  /\ previous' = result
  /\ reentered' = FALSE
  /\ muts' = 0
  /\ UNCHANGED <<filterCall, tree, draws, updateList, world, result>>

\* q(world).  A plan without an edge (two nodes were given one id) skips the
\* loop and returns the root's list as it stands (line 359).
Call ==
  /\ plan.status = "ok"
  /\ stack = <<>>
  /\ IF Len(plan.edgesFlattened) = 0
     THEN /\ queriesComputed' = {}
          /\ stack' = stack
          /\ result' = updateList[plan.rootNode]
          /\ returned' = TRUE
     ELSE /\ enter("world")
          /\ returned' = FALSE
          /\ result' = result
  /\ previous' = result
  /\ reentered' = FALSE
  /\ muts' = 0
  /\ UNCHANGED <<filterCall, tree, draws, plan, updateList, world>>

top == stack[Len(stack)]

Lookup ==
  /\ stack # <<>>
  /\ top.phase = "lookup"
  /\ LET lk == lookup(plan, updateList, queriesComputed, top.i, worldOf(top.w))
         e == plan.edgesFlattened[top.i]
     IN  /\ updateList' = lk.updateList
         /\ queriesComputed' = lk.queriesComputed
         /\ stack' = [stack EXCEPT ![Len(stack)] =
                        [@ EXCEPT !.phase = "filter",
                                  !.parents = lk.updateList[e.parentNode],
                                  !.children = lk.updateList[e.childNode]]]
  /\ UNCHANGED <<filterCall, tree, draws, plan, world, result, returned, previous, reentered, muts>>

Narrow ==
  /\ stack # <<>>
  /\ top.phase = "filter"
  /\ LET r == applyFilter(plan, top.i, top.parents, top.children, worldOf(top.w))
         nr == narrow(plan, updateList, top.i, r)
     IN  /\ updateList' = nr.updateList
         /\ IF nr.returns
            THEN /\ stack' = SubSeq(stack, 1, Len(stack) - 1)
                 /\ IF Len(stack) = 1
                    THEN result' = nr.value /\ returned' = TRUE
                    ELSE UNCHANGED <<result, returned>>
            ELSE /\ stack' = [stack EXCEPT ![Len(stack)] =
                                [@ EXCEPT !.i = @ + 1, !.phase = "lookup",
                                          !.parents = <<>>, !.children = <<>>]]
                 /\ UNCHANGED <<result, returned>>
  /\ UNCHANGED <<filterCall, tree, draws, plan, queriesComputed, world, previous, reentered, muts>>

\* A condition that calls the compiled query again while filter runs.
Reenter ==
  /\ stack # <<>>
  /\ top.phase = "filter"
  /\ Len(stack) < MaxDepth
  /\ \E handle \in {"world", "other"} : enter(handle)
  /\ reentered' = TRUE
  /\ UNCHANGED <<filterCall, tree, draws, plan, updateList, world, result, returned, previous, muts>>

Next ==
  \/ CreateTreeQuery
  \/ Spawn
  \/ Destroy
  \/ AddTrait
  \/ RemoveTrait
  \/ AddRelation
  \/ RemoveRelation
  \/ Call
  \/ Lookup
  \/ Narrow

NextReentrant == Next \/ Reenter

\* ------------------------------------------------------------------------
\* Specifications the caller may write (the tests', main.ts's and the
\* README's shapes over one trait and the three conditions).
A == T("A")
HasChild(args) == F("HasChild", args)
HasSiblings(args) == F("HasSiblings", args)
NotItself(args) == F("NotItself", args)

ChainTrees ==
  { <<A, HasChild(<<HasChild(<<A>>)>>)>>,
    <<HasChild(<<A, HasChild(<<>>)>>)>>,
    <<A, NotItself(<<HasSiblings(<<>>)>>)>>,
    <<HasSiblings(<<HasChild(<<A>>)>>)>>,
    <<A, HasChild(<<A>>)>>,
    <<NotItself(<<HasChild(<<NotItself(<<A>>)>>)>>)>> }

SiblingTrees ==
  { <<HasChild(<<>>), HasSiblings(<<>>)>>,
    <<A, HasChild(<<A>>), NotItself(<<A>>)>>,
    <<HasSiblings(<<A>>), HasChild(<<>>)>>,
    <<NotItself(<<HasChild(<<A>>), HasSiblings(<<>>)>>)>>,
    <<A, HasChild(<<HasChild(<<>>), NotItself(<<A>>)>>)>> }

RootlessTrees ==
  { <<HasSiblings(<<>>)>>,
    <<HasSiblings(<<A>>)>>,
    <<NotItself(<<A>>)>>,
    <<HasChild(<<HasChild(<<>>)>>)>>,
    <<HasChild(<<>>), NotItself(<<A>>)>> }

ErrorTrees ==
  { <<>>,
    <<A>>,
    <<A, A>>,
    <<A, HasChild(<<RawList>>)>>,
    <<HasChild(<<A, HasChild(<<RawList, A>>)>>)>>,
    <<RawList, HasChild(<<>>)>>,
    <<A, RawList>> }

SampleTrees ==
  { <<A, NotItself(<<A>>)>>,
    <<HasSiblings(<<A>>)>>,
    <<A, HasChild(<<HasChild(<<A>>)>>)>>,
    <<NotItself(<<HasChild(<<NotItself(<<A>>)>>)>>)>>,
    <<A, HasChild(<<>>), HasSiblings(<<A>>)>>,
    <<HasChild(<<HasChild(<<>>), NotItself(<<A>>)>>), NotItself(<<>>)>>,
    <<HasChild(<<HasChild(<<>>)>>), HasChild(<<HasChild(<<A>>)>>)>> } \cup ErrorTrees

Spec == InitWith(SampleTrees) /\ [][Next]_vars
SpecChain == InitWith(ChainTrees) /\ [][Next]_vars
SpecSiblings == InitWith(SiblingTrees) /\ [][Next]_vars
SpecRootless == InitWith(RootlessTrees) /\ [][Next]_vars

ReentrantTrees ==
  { <<NotItself(<<HasChild(<<NotItself(<<A>>)>>)>>)>>,
    <<A, HasChild(<<HasChild(<<A>>)>>)>> }

SpecReentrant == InitWith(ReentrantTrees) /\ [][NextReentrant]_vars

\* Math.random() may return a value it returned before: streams of draws with
\* a repeated value, beside the one without.
CollidingDraws ==
  { DistinctDraws,
    [i \in 1..16 |-> 1],
    [i \in 1..16 |-> IF i = 3 THEN 2 ELSE i] }

IdTrees ==
  { <<A, HasChild(<<A>>), NotItself(<<>>)>>,
    <<HasChild(<<HasChild(<<A>>)>>)>> }

InitColliding ==
  /\ tree \in IdTrees
  /\ draws \in CollidingDraws
  /\ plan = NoPlan("none")
  /\ updateList = <<>>
  /\ queriesComputed = {}
  /\ world = EmptyWorld
  /\ stack = <<>>
  /\ result = <<>>
  /\ returned = FALSE
  /\ previous = <<>>
  /\ reentered = FALSE
  /\ muts = 0
  /\ filterCall = NoCall

SpecColliding == InitColliding /\ [][Next]_vars

\* ------------------------------------------------------------------------
\* A filter node's queryFilter is a plain function of the node
\* createTreeQueryFilter(condition)(...) returns: called directly, on any
\* two lists of entities of the world.
Conditions == {"HasChild", "HasSiblings", "NotItself"}

RECURSIVE ListsUpTo(_, _)
ListsUpTo(S, n) ==
  IF n = 0 THEN {<<>>}
  ELSE ListsUpTo(S, n - 1) \cup
       {Append(l, x) : l \in {m \in ListsUpTo(S, n - 1) : Len(m) = n - 1}, x \in S}

QueryFilterCall ==
  /\ plan.status = "none"
  /\ ~filterCall.called
  /\ \E name \in Conditions, skipCollectingChildren \in BOOLEAN,
        parents \in ListsUpTo(world.alive, MaxLen),
        children \in ListsUpTo(world.alive, MaxLen) :
       LET r == queryFilter(name, parents, children, world, skipCollectingChildren)
       IN  filterCall' =
             [called |-> TRUE, name |-> name, parents |-> parents, children |-> children,
              skipCollectingChildren |-> skipCollectingChildren,
              parents2 |-> r.parents, children2 |-> r.children]
  /\ UNCHANGED <<tree, draws, plan, updateList, queriesComputed, world, stack, result,
                 returned, previous, reentered, muts>>

\* The worlds of the tests: a parent with two children (the children are
\* siblings), a chain of three, and two unrelated entities.
FilterWorlds ==
  { addRelation(addRelation(addRelation(addRelation(
        spawn(spawn(spawn(EmptyWorld, {"A"}, "", 0), {"A"}, "", 0), {}, "", 0),
        1, "IsParentOf", 2), 1, "IsParentOf", 3), 2, "IsChildOf", 1), 3, "IsChildOf", 1),
    spawn(spawn(spawn(EmptyWorld, {"A"}, "", 0), {}, "IsParentOf", 1), {"A"}, "IsParentOf", 2),
    spawn(spawn(EmptyWorld, {"A"}, "", 0), {"A"}, "", 0) }

FilterTrees ==
  { <<A, HasChild(<<HasChild(<<>>)>>)>>,
    <<HasChild(<<A>>), HasSiblings(<<NotItself(<<A>>)>>)>> }

InitFilter ==
  /\ tree \in FilterTrees
  /\ draws = DistinctDraws
  /\ plan = NoPlan("none")
  /\ updateList = <<>>
  /\ queriesComputed = {}
  /\ world \in FilterWorlds
  /\ stack = <<>>
  /\ result = <<>>
  /\ returned = FALSE
  /\ previous = <<>>
  /\ reentered = FALSE
  /\ muts = 0
  /\ filterCall = NoCall

NextFilter ==
  \/ QueryFilterCall
  \/ CreateTreeQuery
  \/ Call
  \/ Lookup
  \/ Narrow

SpecFilter == InitFilter /\ [][NextFilter]_vars

\* ------------------------------------------------------------------------
\* What a specification means (README, "Step 2"), read off the evaluated
\* arguments and not off the compiled plan.
queryTree == [i \in 1..Len(tree) |-> Evaluate(tree[i])]

isFilterValue(v) == v.isFilter
isPlainValue(v) == ~v.isFilter

topFilters == SelectSeq(queryTree, isFilterValue)

topComponents ==
  LET plain == SelectSeq(queryTree, isPlainValue)
  IN  [i \in 1..Len(plain) |-> plain[i].trait]

\* Entity e has, for every filter node of fs, a match that itself satisfies
\* the filter node's nested filter nodes.
RECURSIVE Satisfies(_, _, _)
Satisfies(fs, e, w) ==
  \A k \in 1..Len(fs) :
    \E c \in Range(worldQuery(w, fs[k].components)) :
      /\ condition(fs[k].queryFilter, e, c, w)
      /\ Satisfies(fs[k].childQueries, c, w)

Expected(w) ==
  {r \in Range(worldQuery(w, topComponents)) : Satisfies(topFilters, r, w)}

\* ------------------------------------------------------------------------
\* C1: every execution returns exactly the root entities that satisfy the
\* whole nested condition of the specification, for every accepted
\* specification, also one where two sibling filter nodes both carry nested
\* filter nodes.
C1_ResultIsNestedCondition ==
  returned => Range(result) = Expected(world)

\* ------------------------------------------------------------------------
\* C2: in a linear chain root -> mid -> leaf (and longer), a root entity is
\* returned iff some mid entity matches it under the first condition and
\* that same mid entity has a leaf entity matching under the second, and so
\* on down the chain.
RECURSIVE ChainHolds(_, _, _)
ChainHolds(f, p, w) ==
  \E c \in Range(worldQuery(w, f.components)) :
    /\ condition(f.queryFilter, p, c, w)
    /\ (Len(f.childQueries) = 0 \/ ChainHolds(f.childQueries[1], c, w))

RECURSIVE IsChainFilter(_)
IsChainFilter(f) ==
  Len(f.childQueries) = 0 \/ (Len(f.childQueries) = 1 /\ IsChainFilter(f.childQueries[1]))

IsChainTree == Len(topFilters) = 1 /\ IsChainFilter(topFilters[1])

C2_ChainComposition ==
  (returned /\ IsChainTree) =>
    Range(result) =
      {r \in Range(worldQuery(world, topComponents)) : ChainHolds(topFilters[1], r, world)}

\* A root with a matching mid entity whose mid entities all lack a leaf.
C2_Witness ==
  /\ returned
  /\ IsChainTree
  /\ Len(plan.edgesFlattened) >= 2
  /\ \E r \in Range(worldQuery(world, topComponents)) :
       /\ r \notin Range(result)
       /\ \E m \in Range(worldQuery(world, topFilters[1].components)) :
            condition(topFilters[1].queryFilter, r, m, world)

\* ------------------------------------------------------------------------
\* C3: every execution returns what a freshly compiled copy of the same
\* specification returns on the world as it is at that call, whatever the
\* earlier executions and the mutations in between left behind.
C3_NoStaleCaching ==
  returned => result = runFresh(plan, world)

\* The previous call returned entities, an entity its lists held was then
\* destroyed, and this call returns the empty list.
C3_Witness ==
  /\ returned
  /\ result = <<>>
  /\ previous # <<>>
  /\ \E n \in DOMAIN updateList : \E e \in Range(updateList[n]) : e \notin world.alive

\* ------------------------------------------------------------------------
\* C4: an entity of a node with two filter edges survives only if it has a
\* match under the first condition and a match under the second, and the
\* surviving set does not depend on which of the two edges runs first.
BothMatch(fs, e, w) ==
  /\ \E c1 \in Range(worldQuery(w, fs[1].components)) :
       condition(fs[1].queryFilter, e, c1, w)
  /\ \E c2 \in Range(worldQuery(w, fs[2].components)) :
       condition(fs[2].queryFilter, e, c2, w)

swapAt(edges, i) ==
  [k \in 1..Len(edges) |->
     IF k = i THEN edges[i + 1] ELSE IF k = i + 1 THEN edges[i] ELSE edges[k]]

\* The plan with two neighbouring edges of one parent node exchanged.
SiblingSwaps(pl) ==
  { [pl EXCEPT !.edgesFlattened = swapAt(@, i)] :
      i \in { k \in 1..(Len(pl.edgesFlattened) - 1) :
                pl.edgesFlattened[k].parentNode = pl.edgesFlattened[k + 1].parentNode } }

SiblingsAtTop == Len(topFilters) = 2

SiblingsBelow == Len(topFilters) = 1 /\ Len(topFilters[1].childQueries) = 2

C4_SiblingConjunction ==
  returned =>
    /\ SiblingsAtTop =>
         Range(result) =
           {r \in Range(worldQuery(world, topComponents)) : BothMatch(topFilters, r, world)}
    /\ SiblingsBelow =>
         Range(result) =
           {r \in Range(worldQuery(world, topComponents)) :
              \E x \in Range(worldQuery(world, topFilters[1].components)) :
                /\ condition(topFilters[1].queryFilter, r, x, world)
                /\ BothMatch(topFilters[1].childQueries, x, world)}
    /\ \A swapped \in SiblingSwaps(plan) :
         Range(runFresh(swapped, world)) = Range(result)

\* A root entity with a match under exactly one of its two filters is left
\* out, while another one with both is returned.
C4_Witness ==
  /\ returned
  /\ SiblingsAtTop
  /\ SiblingSwaps(plan) # {}
  /\ result # <<>>
  /\ \E r \in Range(worldQuery(world, topComponents)) :
       /\ r \notin Range(result)
       /\ \/ \E c \in Range(worldQuery(world, topFilters[1].components)) :
               condition(topFilters[1].queryFilter, r, c, world)
          \/ \E c \in Range(worldQuery(world, topFilters[2].components)) :
               condition(topFilters[2].queryFilter, r, c, world)

\* ------------------------------------------------------------------------
\* C5: a specification without a plain trait at the top level still has a
\* root node, pushed to finalQueries exactly once with no components, so
\* the root candidates are all entities and the result is every entity
\* with a match under the filters.
C5_RootWithoutComponents ==
  (plan.status = "ok" /\ topComponents = <<>>) =>
    /\ plan.nodes[plan.rootNode].query = <<>>
    /\ Cardinality({i \in 1..Len(plan.finalQueries) :
                      plan.finalQueries[i] = plan.rootNode}) = 1
    /\ returned =>
         Range(result) = {e \in world.alive : Satisfies(topFilters, e, world)}

\* The siblings test: createTreeQuery(HasSiblings()) returns both entities
\* that share a target.
C5_Witness ==
  /\ returned
  /\ tree = <<HasSiblings(<<>>)>>
  /\ world.target[2] = 1
  /\ world.target[3] = 1
  /\ result = <<2, 3>>

\* ------------------------------------------------------------------------
\* C6: on a world without entities, and whenever the lookup of the root
\* node or of any other node of the plan is empty, the result is empty.
C6_EmptyLookupEmptyResult ==
  (returned /\ \E n \in DOMAIN plan.nodes : worldQuery(world, plan.nodes[n].query) = <<>>)
    => result = <<>>

\* The root's lookup has entities, another node's lookup has none.
C6_Witness ==
  /\ returned
  /\ result = <<>>
  /\ worldQuery(world, plan.nodes[plan.rootNode].query) # <<>>
  /\ \E n \in DOMAIN plan.nodes : worldQuery(world, plan.nodes[n].query) = <<>>

\* ------------------------------------------------------------------------
\* C7: createTreeQuery throws, and returns no callable query, for an empty
\* specification and for one made of plain traits only; a query is called
\* only after a successful compilation and every call returns a list.
OnlyTraits == Len(tree) > 0 /\ \A i \in 1..Len(tree) : tree[i].k = "trait"

C7_CompileTimeErrors ==
  plan.status # "none" =>
    /\ Len(tree) = 0 => plan.status = "TreeQueryEmpty"
    /\ OnlyTraits => plan.status = "NoFilter"
    /\ plan.status # "ok" => (stack = <<>> /\ ~returned /\ plan.edgesFlattened = <<>>)
    /\ returned => (plan.status = "ok" /\ result \in Seq(Entities))

C7_Witness ==
  /\ OnlyTraits
  /\ plan.status = "NoFilter"

\* ------------------------------------------------------------------------
\* C8: a raw nested list among the elements of a specification is rejected
\* at compile time wherever it occurs, at the top level as well as inside a
\* relationship constructor's list; it is never taken for a plain trait.
RECURSIVE HasRawList(_)
HasRawList(elems) ==
  \E i \in 1..Len(elems) : elems[i].k = "list" \/ HasRawList(elems[i].args)

SpecificationErrors == {"TreeQueryEmpty", "SyntaxError", "NoFilter"}

C8_RawListRejected ==
  (plan.status # "none" /\ HasRawList(tree)) =>
    /\ plan.status \in SpecificationErrors
    /\ \A n \in DOMAIN plan.nodes :
         \A i \in 1..Len(plan.nodes[n].query) : plan.nodes[n].query[i] # RawList.name

\* ------------------------------------------------------------------------
\* C10: the result is a list, an order-preserving subsequence of the
\* Attribute Store lookup of the root node's traits at call time, and holds
\* every entity at most once, also when deeper lists hold an entity twice.
RECURSIVE IsSubsequence(_, _)
IsSubsequence(s, t) ==
  IF Len(s) = 0 THEN TRUE
  ELSE IF Len(t) = 0 THEN FALSE
  ELSE IF s[1] = t[1] THEN IsSubsequence(Tail(s), Tail(t))
  ELSE IsSubsequence(s, Tail(t))

NoDuplicates(s) == \A i, j \in 1..Len(s) : s[i] = s[j] => i = j

C10_ResultIsSubsequenceOfRootLookup ==
  returned =>
    /\ result \in Seq(Entities)
    /\ IsSubsequence(result, worldQuery(world, plan.nodes[plan.rootNode].query))
    /\ NoDuplicates(result)

\* A child entity matched several parents: a deeper list holds it twice.
C10_Witness ==
  /\ returned
  /\ result # <<>>
  /\ \E n \in DOMAIN updateList : ~NoDuplicates(updateList[n])

\* ------------------------------------------------------------------------
\* C9: the per-node lists and the set of looked-up nodes are not shared by
\* two executions in flight: a call that a condition starts while an outer
\* call is between two edge steps leaves the outer call's result what it
\* returns when run alone on the same world.
C9_ReentrantCallIsolated ==
  (returned /\ reentered) => result = runFresh(plan, world)

\* ------------------------------------------------------------------------
\* C11: the plan holds one edge per filter node of the specification: every
\* filter node, at every level and for each of several siblings that carry
\* nested filter nodes, has an edge from the node of its enclosing level to a
\* node of its own with the filter node's plain requirements, and its nested
\* filter nodes are compiled below that node in the same way.
RECURSIVE filterNodeCount(_, _)
filterNodeCount(vals, i) ==
  IF i > Len(vals) THEN 0
  ELSE (IF vals[i].isFilter THEN 1 + filterNodeCount(vals[i].childQueries, 1) ELSE 0)
       + filterNodeCount(vals, i + 1)

RECURSIVE CompiledBelow(_, _, _)
CompiledBelow(pl, fs, parentId) ==
  \A k \in 1..Len(fs) :
    \E i \in 1..Len(pl.edgesFlattened) :
      LET e == pl.edgesFlattened[i]
      IN  /\ e.parentNode = parentId
          /\ e.filter = fs[k].queryFilter
          /\ pl.nodes[e.childNode].query = fs[k].components
          /\ CompiledBelow(pl, fs[k].childQueries, e.childNode)

C11_OneEdgePerFilterNode ==
  plan.status = "ok" =>
    /\ Len(plan.edgesFlattened) = filterNodeCount(queryTree, 1)
    /\ Cardinality(DOMAIN plan.nodes) = filterNodeCount(queryTree, 1) + 1
    /\ CompiledBelow(plan, topFilters, plan.rootNode)

\* ------------------------------------------------------------------------
\* C12: the ids genId hands out within one compilation are pairwise
\* distinct, a value drawn a second time being rejected and drawn again, so
\* that no two query objects of one compilation carry the same id.
generatedIds ==
  LET b == buildQueryRecursive(EmptyBuild, draws, queryTree, FALSE, 0)
  IN  [k \in 1..b.n |-> genId(draws, k - 1).id]

C12_NodeIdsDistinct ==
  plan.status = "ok" =>
    LET b == buildQueryRecursive(EmptyBuild, draws, queryTree, FALSE, 0)
    IN  /\ NoDuplicates(generatedIds)
        /\ \A i, j \in 1..Len(b.objs) : b.objs[i].id = b.objs[j].id => i = j

\* ------------------------------------------------------------------------
\* C13: in the flat edge list the executor walks from first to last, an edge
\* further from the root comes before every edge nearer the root on the same
\* path: all edges out of a node n come before the one edge into n, and the
\* last edge starts at the root.
RECURSIVE IsBelow(_, _, _)
IsBelow(E, j, i) ==
  \/ E[j].parentNode = E[i].childNode
  \/ \E k \in 1..Len(E) : E[k].parentNode = E[i].childNode /\ IsBelow(E, j, k)

C13_DescendantEdgesFirst ==
  plan.status = "ok" =>
    LET E == plan.edgesFlattened
    IN  /\ \A i, j \in 1..Len(E) : IsBelow(E, j, i) => j < i
        /\ \A i, j \in 1..Len(E) : E[i].parentNode = E[j].childNode => i < j
        /\ \A i, j \in 1..Len(E) : E[i].childNode = E[j].childNode => i = j
        /\ E[Len(E)].parentNode = plan.rootNode
        /\ stack # <<>> => top.i \in 1..Len(E)

\* A plan whose root has two edges and whose first child has two more, run
\* through all four edges to a result.
C13_Witness ==
  /\ returned
  /\ result # <<>>
  /\ Len(plan.edgesFlattened) = 4
  /\ \E i, j \in 1..4 : i # j /\ plan.edgesFlattened[i].parentNode = plan.rootNode
                              /\ plan.edgesFlattened[j].parentNode = plan.rootNode
  /\ \E i, j \in 1..4 :
       plan.edgesFlattened[i].parentNode = plan.edgesFlattened[j].childNode

\* ------------------------------------------------------------------------
\* C14: the return at the first edge whose narrowed lists are empty gives
\* the answer the executor would give without it: carried on over all the
\* remaining edges with the empty lists assigned, the execution ends with an
\* empty list at the root.
RECURSIVE runWithoutEarlyReturn(_, _, _, _, _)
runWithoutEarlyReturn(pl, lists, computed, i, w) ==
  IF i > Len(pl.edgesFlattened) THEN lists[pl.rootNode]
  ELSE LET lk == lookup(pl, lists, computed, i, w)
           e == pl.edgesFlattened[i]
           r == applyFilter(pl, i, lk.updateList[e.parentNode],
                            lk.updateList[e.childNode], w)
           l1 == [lk.updateList EXCEPT ![e.parentNode] = r.parents]
           l2 == [l1 EXCEPT ![e.childNode] = r.children]
       IN  runWithoutEarlyReturn(pl, l2, lk.queriesComputed, i + 1, w)

C14_EarlyReturnIsSafe ==
  returned => result = runWithoutEarlyReturn(plan, freshLists(plan), {}, 1, world)

\* The call returned before it reached every node of the plan, on a world
\* where the root's lookup has entities.
C14_Witness ==
  /\ returned
  /\ result = <<>>
  /\ queriesComputed # DOMAIN plan.nodes
  /\ Len(plan.edgesFlattened) >= 3
  /\ worldQuery(world, plan.nodes[plan.rootNode].query) # <<>>

\* ------------------------------------------------------------------------
\* C15: queryFilter keeps the same parents, in the same order, with
\* skipCollectingChildren true and with it false: the parents that have a
\* match among the children.  With the flag true it records for each kept
\* parent the first match in scan order and no other, with it false every
\* match.  The executor passes true exactly for an edge whose child node has
\* no edge of its own.
matchesOf(name, p, C, w) ==
  LET isMatch(c) == condition(name, p, c, w)
  IN  SelectSeq(C, isMatch)

retainedOf(name, P, C, w) ==
  LET hasMatch(p) == matchesOf(name, p, C, w) # <<>>
  IN  SelectSeq(P, hasMatch)

RECURSIVE recordedOf(_, _, _, _, _, _)
recordedOf(name, R, C, w, firstOnly, k) ==
  IF k > Len(R) THEN <<>>
  ELSE LET m == matchesOf(name, R[k], C, w)
       IN  (IF firstOnly THEN <<m[1]>> ELSE m) \o recordedOf(name, R, C, w, firstOnly, k + 1)

FilterContract(name, P, C, w) ==
  LET a == queryFilter(name, P, C, w, TRUE)
      b == queryFilter(name, P, C, w, FALSE)
      R == retainedOf(name, P, C, w)
  IN  /\ a.parents = b.parents
      /\ a.parents = R
      /\ a.children = recordedOf(name, R, C, w, TRUE, 1)
      /\ b.children = recordedOf(name, R, C, w, FALSE, 1)
      /\ Len(a.children) = Len(a.parents)

noEdgeFrom(pl, n) ==
  \A i \in 1..Len(pl.edgesFlattened) : pl.edgesFlattened[i].parentNode # n

C15_SkipFlagKeepsParents ==
  /\ filterCall.called =>
       /\ FilterContract(filterCall.name, filterCall.parents, filterCall.children, world)
       /\ filterCall.parents2 =
            retainedOf(filterCall.name, filterCall.parents, filterCall.children, world)
       /\ filterCall.children2 =
            recordedOf(filterCall.name, filterCall.parents2, filterCall.children, world,
                       filterCall.skipCollectingChildren, 1)
  /\ (stack # <<>> /\ top.phase = "filter") =>
       LET e == plan.edgesFlattened[top.i]
           w == worldOf(top.w)
       IN  /\ FilterContract(e.filter, top.parents, top.children, w)
           /\ applyFilter(plan, top.i, top.parents, top.children, w) =
                queryFilter(e.filter, top.parents, top.children, w,
                            noEdgeFrom(plan, e.childNode))

\* A direct call with the flag true: one of two parents is dropped, the
\* other has two matching children and one of them is recorded.
C15_Witness ==
  /\ filterCall.called
  /\ filterCall.skipCollectingChildren
  /\ Len(filterCall.parents) = 2
  /\ Len(filterCall.parents2) = 1
  /\ Len(filterCall.children2) = 1
  /\ Len(matchesOf(filterCall.name, filterCall.parents2[1], filterCall.children, world)) = 2

\* ------------------------------------------------------------------------
\* C16: within one execution the step that processes an edge leaves in the
\* list of the edge's parent node and of its child node only entities the
\* list held when filter was called, and no other list changes; so the list
\* of every node looked up in the execution holds only entities of that
\* node's lookup.
C16_MonotonicNarrowing ==
  /\ (stack # <<>> /\ top.phase = "filter") =>
       LET e == plan.edgesFlattened[top.i]
           r == applyFilter(plan, top.i, top.parents, top.children, worldOf(top.w))
           after == narrow(plan, updateList, top.i, r).updateList
       IN  /\ top.parents = updateList[e.parentNode]
           /\ top.children = updateList[e.childNode]
           /\ \A n \in DOMAIN plan.nodes : Range(after[n]) \subseteq Range(updateList[n])
           /\ \A n \in DOMAIN plan.nodes \ {e.parentNode, e.childNode} :
                after[n] = updateList[n]
  /\ (stack # <<>> \/ returned) =>
       \A n \in queriesComputed :
         Range(updateList[n]) \subseteq Range(worldQuery(world, plan.nodes[n].query))

\* Past the first edge of an execution, a node looked up in it has lost an
\* entity of its lookup and kept another.
C16_Witness ==
  /\ stack # <<>>
  /\ top.i >= 2
  /\ top.phase = "filter"
  /\ \E n \in queriesComputed :
       /\ updateList[n] # <<>>
       /\ Range(updateList[n]) # Range(worldQuery(world, plan.nodes[n].query))

\* ------------------------------------------------------------------------
\* C17: after any number of executions, the ones that returned early
\* included, the plan is the one createTreeQuery built: the same edges in
\* the same order, each with its filter, parent node and child node, and
\* every node with its lookup key and its child edges.
C17_PlanUnchangedByExecution ==
  plan.status = "ok" =>
    LET built == createTreeQuery(queryTree, draws, FALSE)
    IN  /\ plan.edgesFlattened = built.edgesFlattened
        /\ plan.rootNode = built.rootNode
        /\ DOMAIN plan.nodes = DOMAIN built.nodes
        /\ \A n \in DOMAIN plan.nodes :
             /\ plan.nodes[n].query = built.nodes[n].query
             /\ plan.nodes[n].children = built.nodes[n].children
        /\ DOMAIN updateList = DOMAIN plan.nodes

\* A second execution returned early, after a first one that ran through
\* every edge and returned entities.
C17_Witness ==
  /\ returned
  /\ result = <<>>
  /\ previous # <<>>
  /\ queriesComputed # DOMAIN plan.nodes
  /\ Len(plan.edgesFlattened) >= 2

====
